---- MODULE Spec2Model ----
(***************************************************************************)
(* Model of processor.py: the context-scoped XML mutation engine.          *)
(*                                                                         *)
(* A document is a table of element nodes; node n is the record            *)
(* [tag, text, parent].  Node 0 is the document node (the parent of the    *)
(* root element), a parent of Detached marks an element removed from       *)
(* the tree.  Children are appended last and get the next free id, so the  *)
(* children of a node are ordered by id.                                   *)
(*                                                                         *)
(* A string is a sequence of atoms.  In a text value an atom is one        *)
(* character; in a path expression the atoms are ".", "/", " ", the prefix *)
(* "hr:" and local names; in an element tag (Clark notation) they are      *)
(* "{", the namespace URI, "}" and the local name.                         *)
(*                                                                         *)
(* The({f(x) : x \in {e}}) is LET x == e IN f(x) with e evaluated once:    *)
(* TLC hands LET definitions and operator arguments on unevaluated.        *)
(***************************************************************************)
EXTENDS Integers, Sequences, FiniteSets, TLC

MaxCalls == 2

HR_NS == "http://ns.hr-xml.org/2004-08-02"
NSMAP == [hr |-> HR_NS]

None == <<"None">>
Detached == -1

The(S) == CHOOSE r \in S : TRUE

Min(S) == CHOOSE x \in S : \A y \in S : x <= y
Max(S) == CHOOSE x \in S : \A y \in S : x >= y

(* ---------------- Python string primitives ---------------- *)
IsSpace(c) == c \in {" ", "\t", "\n"}

strip(s) ==
    LET keep == {i \in 1..Len(s) : ~IsSpace(s[i])}
    IN  IF keep = {} THEN <<>> ELSE SubSeq(s, Min(keep), Max(keep))

startswith(s, p) == Len(s) >= Len(p) /\ SubSeq(s, 1, Len(p)) = p

\* index of the first occurrence of p in s, 0 when there is none
find(s, p) ==
    LET hits == {i \in 1..(Len(s) - Len(p) + 1) : SubSeq(s, i, i + Len(p) - 1) = p}
    IN  IF hits = {} THEN 0 ELSE Min(hits)

RECURSIVE replace(_, _, _)
replace(s, old, new) ==
    The({ IF i = 0 THEN s
          ELSE SubSeq(s, 1, i - 1) \o new
               \o replace(SubSeq(s, i + Len(old), Len(s)), old, new)
          : i \in {find(s, old)} })

RECURSIVE split(_, _)
split(s, sep) ==
    The({ IF i = 0 THEN <<s>>
          ELSE <<SubSeq(s, 1, i - 1)>> \o split(SubSeq(s, i + Len(sep), Len(s)), sep)
          : i \in {find(s, sep)} })

RECURSIVE join(_, _)
join(parts, sep) ==
    IF parts = <<>> THEN <<>>
    ELSE IF Len(parts) = 1 THEN parts[1]
    ELSE parts[1] \o sep \o join(Tail(parts), sep)

(* ---------------- the element tree ---------------- *)
Ids(t) == [i \in 1..Len(t) |-> i]

Kids(t, n) == SelectSeq(Ids(t), LAMBDA i : t[i].parent = n)

RECURSIVE AncOrSelf(_, _)
AncOrSelf(t, n) == IF n <= 0 THEN {n} ELSE {n} \cup AncOrSelf(t, t[n].parent)

\* descendant-or-self::node() of the node set S (0 is the document node)
DescOrSelf(t, S) == {n \in 0..Len(t) : AncOrSelf(t, n) \cap S # {}}

RECURSIVE Preorder(_, _)
RECURSIVE PreorderAll(_, _)
Preorder(t, n) == <<n>> \o PreorderAll(t, Kids(t, n))
PreorderAll(t, ks) ==
    IF ks = <<>> THEN <<>> ELSE Preorder(t, Head(ks)) \o PreorderAll(t, Tail(ks))

\* the attached elements in document order
DocOrder(t) == Tail(Preorder(t, 0))

\* element.append of a fresh etree.Element(tag)
AppendChild(t, parent, tag) == Append(t, [tag |-> tag, text |-> None, parent |-> parent])

(* ---------------- XPath over the tree ---------------- *)
\* the Clark-notation tag a name test selects under NSMAP
ExpandName(step) ==
    IF step # <<>> /\ step[1] = "hr:"
    THEN <<"{", NSMAP.hr, "}">> \o Tail(step)
    ELSE step

\* the node set a location path selects from the node set S: "//" is
\* /descendant-or-self::node()/, "/name" the children of that name
RECURSIVE Walk(_, _, _)
Walk(t, S, toks) ==
    IF toks = <<>> THEN S
    ELSE IF startswith(toks, <<"/", "/">>)
    THEN The({Walk(t, D, Tail(toks)) : D \in {DescOrSelf(t, S)}})
    ELSE LET rest == Tail(toks)
             j    == find(rest, <<"/">>)
             step == IF j = 0 THEN rest ELSE SubSeq(rest, 1, j - 1)
             more == IF j = 0 THEN <<>> ELSE SubSeq(rest, j, Len(rest))
         IN  The({ The({Walk(t, C, more) :
                          C \in {{n \in 1..Len(t) : t[n].parent \in S /\ t[n].tag = tag}}})
                   : tag \in {ExpandName(step)} })

\* ctx.xpath(xp, namespaces=NSMAP): the selected elements in document order
xpath(t, ctx, xp) ==
    LET absolute == xp # <<>> /\ xp[1] = "/"
    IN  The({ SelectSeq(DocOrder(t), LAMBDA n : n \in sel)
              : sel \in {IF absolute THEN Walk(t, {0}, xp) ELSE Walk(t, {ctx}, Tail(xp))} })

(* -------------- CONTEXT-AWARE (per-contract) helpers -------------- *)
\* _rel without the "." put before a doubly-rooted path
_rel_unanchored(xpath_) ==
    LET xp == strip(xpath_)
    IN  IF startswith(xp, <<"/", "/">>) THEN xp
        ELSE IF ~startswith(xp, <<".">>) THEN <<".", "/", "/">> \o xp
        ELSE xp

_rel(xpath_) ==
    LET xp == strip(xpath_)
    IN  IF startswith(xp, <<"/", "/">>) THEN <<".">> \o xp
        ELSE IF ~startswith(xp, <<".">>) THEN <<".", "/", "/">> \o xp
        ELSE xp

\* 0 stands for Python's None
find_one_rel(t, ctx, xpath_) ==
    The({ IF nodes # <<>> THEN nodes[1] ELSE 0
          : nodes \in {xpath(t, ctx, _rel(xpath_))} })

get_text_rel(t, ctx, xpath_) ==
    The({ IF node # 0 /\ t[node].text # None THEN strip(t[node].text) ELSE <<>>
          : node \in {find_one_rel(t, ctx, xpath_)} })

\* ensure_node_rel's loop without "parent = found[0]"
RECURSIVE EnsureWalk_parent_kept(_, _, _, _, _)
EnsureWalk_parent_kept(t, ctx, parts, i, parent) ==
    IF i > Len(parts) THEN [tree |-> t, node |-> parent]
    ELSE LET subxp == <<".", "/", "/">> \o join(SubSeq(parts, 1, i), <<"/">>)
             tag == replace(parts[i], <<"hr:">>, <<"{", HR_NS, "}">>)
         IN  The({ IF found # <<>>
                   THEN EnsureWalk_parent_kept(t, ctx, parts, i + 1, parent)
                   ELSE The({EnsureWalk_parent_kept(t2, ctx, parts, i + 1, Len(t2)) :
                               t2 \in {AppendChild(t, parent, tag)}})
                   : found \in {xpath(t, ctx, subxp)} })

\* the loop of ensure_node_rel from index i on; yields [tree, node]
RECURSIVE EnsureWalk(_, _, _, _, _)
EnsureWalk(t, ctx, parts, i, parent) ==
    IF i > Len(parts) THEN [tree |-> t, node |-> parent]
    ELSE LET subxp == <<".", "/", "/">> \o join(SubSeq(parts, 1, i), <<"/">>)
             tag == replace(parts[i], <<"hr:">>, <<"{", HR_NS, "}">>)
         IN  The({ IF found # <<>>
                   THEN EnsureWalk(t, ctx, parts, i + 1, found[1])
                   ELSE The({EnsureWalk(t2, ctx, parts, i + 1, Len(t2)) :
                               t2 \in {AppendChild(t, parent, tag)}})
                   : found \in {xpath(t, ctx, subxp)} })

ensure_node_rel(t, ctx, xpath_) ==
    LET xp    == _rel(xpath_)
    IN  The({ The({ IF node # 0 THEN [tree |-> t, node |-> node]
                    ELSE EnsureWalk(t, ctx, parts, 1, ctx)
                    : node \in {find_one_rel(t, ctx, xpath_)} })
              : parts \in {SelectSeq(split(replace(xp, <<".", "/", "/">>, <<>>), <<"/">>),
                                     LAMBDA p : p # <<>>)} })

set_text_rel(t, ctx, xpath_, value) ==
    The({ The({ [e.tree EXCEPT ![e.node].text = value]
                : e \in {IF node = 0 THEN ensure_node_rel(t, ctx, xpath_)
                         ELSE [tree |-> t, node |-> node]} })
          : node \in {find_one_rel(t, ctx, xpath_)} })

(* ---------------- Python dict primitives ---------------- *)
EmptyDict == <<>>

dict_get(d, k, default) == IF k \in DOMAIN d THEN d[k] ELSE default

dict_set(d, k, v) == [x \in (DOMAIN d) \cup {k} |-> IF x = k THEN v ELSE d[x]]

(* -------------- Discovery of "contract" contexts -------------- *)
X_OrderIdValue == <<"/", "hr:", "OrderId", "/", "hr:", "IdValue">>
X_AssignmentIdValue == <<"/", "hr:", "AssignmentId", "/", "hr:", "IdValue">>

\* //hr:ReferenceInformation[hr:OrderId/hr:IdValue and hr:AssignmentId/hr:IdValue]
Markers(t) ==
    {m \in Walk(t, {0}, <<"/", "/", "hr:", "ReferenceInformation">>) :
        /\ Walk(t, {m}, X_OrderIdValue) # {}
        /\ Walk(t, {m}, X_AssignmentIdValue) # {}}

\* the markers themselves: the path without its "/.." step
MarkerParents_no_parent_step(t) ==
    The({ SelectSeq(DocOrder(t), LAMBDA n : n \in ms) : ms \in {Markers(t)} })

\* the node set selected by "<markers>/..", as lxml returns it: in document
\* order, each element once, the document node left out
MarkerParents(t) ==
    The({ SelectSeq(DocOrder(t), LAMBDA n : \E m \in ms : t[m].parent = n)
          : ms \in {Markers(t)} })

\* the de-duplication loop of lines 89-94
RECURSIVE Dedup(_, _, _)
Dedup(parents, seen, result) ==
    IF parents = <<>> THEN result
    ELSE LET p == Head(parents)
         IN  IF p \notin seen
             THEN Dedup(Tail(parents), seen \cup {p}, Append(result, p))
             ELSE Dedup(Tail(parents), seen, result)

find_contract_contexts(t) == Dedup(MarkerParents(t), {}, <<>>)

(* -------------- Single-context operations -------------- *)
XP_OrderId == <<"/", "/", "hr:", "ReferenceInformation">> \o X_OrderIdValue
XP_AssignmentId == <<"/", "/", "hr:", "ReferenceInformation">> \o X_AssignmentIdValue
XP_Coefficient ==
    <<"/", "/", "hr:", "PositionCharacteristics", "/", "hr:", "PositionCoefficient">>
XP_Level ==
    <<"/", "/", "hr:", "PositionCharacteristics", "/", "hr:", "PositionLevel">>
XP_StatusCode ==
    <<"/", "/", "hr:", "PositionCharacteristics", "/", "hr:", "PositionStatus",
      "/", "hr:", "Code">>
XP_PersonReplaced ==
    <<"/", "/", "hr:", "ContractInformation", "/", "hr:", "ContractLegalReason",
      "/", "hr:", "PersonReplaced">>
XP_RecourseType ==
    <<"/", "/", "hr:", "ContractInformation", "/", "hr:", "ContractLegalReason",
      "/", "hr:", "RecourseType">>

extract_order_id_ctx(t, ctx) == get_text_rel(t, ctx, XP_OrderId)

extract_assignment_id_ctx(t, ctx) == get_text_rel(t, ctx, XP_AssignmentId)

\* the two patterns the model configures: the default, and one that matches
\* every string (the empty one included)
RegexDefault == "^[A-E]\\d{1,2}$"
RegexAny == ".*"
Digits == {"0", "1", "2", "3", "4", "5", "6", "7", "8", "9"}

re_match(pattern, s) ==
    IF pattern = RegexDefault
    THEN /\ Len(s) \in {2, 3}
         /\ s[1] \in {"A", "B", "C", "D", "E"}
         /\ \A i \in 2..Len(s) : s[i] \in Digits
    ELSE TRUE

\* normalize_classification_ctx without the "not coeff" test
normalize_overwriting(t, ctx, class_regex) ==
    The({ IF re_match(class_regex, level)
          THEN [tree |-> set_text_rel(t, ctx, XP_Coefficient, level),
                changed |-> TRUE, value |-> level]
          ELSE [tree |-> t, changed |-> FALSE, value |-> coeff]
          : coeff \in {get_text_rel(t, ctx, XP_Coefficient)},
            level \in {get_text_rel(t, ctx, XP_Level)} })

\* yields [tree, changed, value]
normalize_classification_ctx(t, ctx, class_regex) ==
    The({ IF coeff = <<>> /\ re_match(class_regex, level)
          THEN [tree |-> set_text_rel(t, ctx, XP_Coefficient, level),
                changed |-> TRUE, value |-> level]
          ELSE [tree |-> t, changed |-> FALSE, value |-> coeff]
          : coeff \in {get_text_rel(t, ctx, XP_Coefficient)},
            level \in {get_text_rel(t, ctx, XP_Level)} })

\* The five blocks of apply_command_mappings_ctx.  Each takes and yields
\* [tree, applied].
apply_classification_interimaire(s, ctx, cmd, cfg) ==
    LET mappings == dict_get(cfg, "mappings", EmptyDict)
        f == "classification_interimaire"
    IN  IF f \in DOMAIN cmd /\ f \in DOMAIN mappings
        THEN LET value == strip(cmd[f])
             IN  IF value # <<>>
                 THEN [tree |-> set_text_rel(s.tree, ctx, mappings[f], value),
                       applied |-> dict_set(s.applied, f, value)]
                 ELSE s
        ELSE s

apply_statut(s, ctx, cmd, cfg) ==
    LET mappings == dict_get(cfg, "mappings", EmptyDict)
        statut_map == dict_get(cfg, "statut_map", EmptyDict)
        f == "statut"
    IN  IF f \in DOMAIN cmd /\ f \in DOMAIN mappings
        THEN LET raw == strip(cmd[f])
                 value == IF raw # <<>> THEN dict_get(statut_map, raw, raw) ELSE <<>>
             IN  IF value # <<>>
                 THEN [tree |-> set_text_rel(s.tree, ctx, mappings[f], value),
                       applied |-> dict_set(s.applied, f, value)]
                 ELSE s
        ELSE s

apply_personne_absente(s, ctx, cmd, cfg) ==
    LET mappings == dict_get(cfg, "mappings", EmptyDict)
        f == "personne_absente"
    IN  IF f \in DOMAIN cmd /\ f \in DOMAIN mappings
        THEN LET value == strip(cmd[f])
             IN  IF value # <<>>
                 THEN The({ [tree |-> set_text_rel(t1, ctx, XP_RecourseType, <<"0", "1">>),
                             applied |-> dict_set(dict_set(s.applied, f, value),
                                                  "recourse_type", <<"0", "1">>)]
                            : t1 \in {set_text_rel(s.tree, ctx, mappings[f], value)} })
                 ELSE s
        ELSE s

\* the code_metier block without its "if value" test
apply_code_metier_unguarded(s, ctx, cmd, cfg) ==
    LET mappings == dict_get(cfg, "mappings", EmptyDict)
        f == "code_metier"
    IN  IF f \in DOMAIN cmd /\ f \in DOMAIN mappings
        THEN LET value == strip(cmd[f])
             IN  [tree |-> set_text_rel(s.tree, ctx, mappings[f], value),
                  applied |-> dict_set(s.applied, f, value)]
        ELSE s

apply_code_metier(s, ctx, cmd, cfg) ==
    LET mappings == dict_get(cfg, "mappings", EmptyDict)
        f == "code_metier"
    IN  IF f \in DOMAIN cmd /\ f \in DOMAIN mappings
        THEN LET value == strip(cmd[f])
             IN  IF value # <<>>
                 THEN [tree |-> set_text_rel(s.tree, ctx, mappings[f], value),
                       applied |-> dict_set(s.applied, f, value)]
                 ELSE s
        ELSE s

\* the code_site block taking the part after the last hyphen for the prefix
apply_code_site_last_part(s, ctx, cmd, cfg) ==
    LET mappings == dict_get(cfg, "mappings", EmptyDict)
        f == "code_site"
    IN  IF f \in DOMAIN cmd /\ f \in DOMAIN mappings
        THEN LET value == strip(cmd[f])
             IN  IF value # <<>>
                 THEN LET site_cfg == dict_get(cfg, "site_idvalue", EmptyDict)
                          rebuild == dict_get(site_cfg, "rebuild", FALSE)
                          siret == dict_get(site_cfg, "siret_prefix", <<>>)
                      IN  The({ [tree |->
                                   IF rebuild /\ siret # <<>>
                                   THEN set_text_rel(s.tree, ctx, mappings[f],
                                                     siret \o <<"-">> \o value)
                                   ELSE IF curr # <<>> /\ find(curr, <<"-">>) # 0
                                   THEN set_text_rel(s.tree, ctx, mappings[f],
                                            split(curr, <<"-">>)[Len(split(curr, <<"-">>))]
                                            \o <<"-">> \o value)
                                   ELSE set_text_rel(s.tree, ctx, mappings[f], value),
                                 applied |-> dict_set(s.applied, f, value)]
                                : curr \in {get_text_rel(s.tree, ctx, mappings[f])} })
                 ELSE s
        ELSE s

apply_code_site(s, ctx, cmd, cfg) ==
    LET mappings == dict_get(cfg, "mappings", EmptyDict)
        f == "code_site"
    IN  IF f \in DOMAIN cmd /\ f \in DOMAIN mappings
        THEN LET value == strip(cmd[f])
             IN  IF value # <<>>
                 THEN LET site_cfg == dict_get(cfg, "site_idvalue", EmptyDict)
                          rebuild == dict_get(site_cfg, "rebuild", FALSE)
                          siret == dict_get(site_cfg, "siret_prefix", <<>>)
                      IN  The({ [tree |->
                                   IF rebuild /\ siret # <<>>
                                   THEN set_text_rel(s.tree, ctx, mappings[f],
                                                     siret \o <<"-">> \o value)
                                   ELSE IF curr # <<>> /\ find(curr, <<"-">>) # 0
                                   THEN set_text_rel(s.tree, ctx, mappings[f],
                                            split(curr, <<"-">>)[1] \o <<"-">> \o value)
                                   ELSE set_text_rel(s.tree, ctx, mappings[f], value),
                                 applied |-> dict_set(s.applied, f, value)]
                                : curr \in {get_text_rel(s.tree, ctx, mappings[f])} })
                 ELSE s
        ELSE s

\* the states of (tree, applied) on entry and after each of the five blocks
apply_command_mappings_steps(t, ctx, cmd, cfg) ==
    The({ The({ The({ The({ The({ The({ <<s0, s1, s2, s3, s4, s5>>
        : s5 \in {apply_code_site(s4, ctx, cmd, cfg)} })
        : s4 \in {apply_code_metier(s3, ctx, cmd, cfg)} })
        : s3 \in {apply_personne_absente(s2, ctx, cmd, cfg)} })
        : s2 \in {apply_statut(s1, ctx, cmd, cfg)} })
        : s1 \in {apply_classification_interimaire(s0, ctx, cmd, cfg)} })
        : s0 \in {[tree |-> t, applied |-> EmptyDict]} })

\* yields [tree, applied]
apply_command_mappings_ctx(t, ctx, cmd, cfg) ==
    apply_command_mappings_steps(t, ctx, cmd, cfg)[6]

summarize_ctx(t, ctx) ==
    [OrderId |-> extract_order_id_ctx(t, ctx),
     AssignmentId |-> extract_assignment_id_ctx(t, ctx),
     StatusCode |-> get_text_rel(t, ctx, XP_StatusCode),
     PositionLevel |-> get_text_rel(t, ctx, XP_Level),
     PositionCoefficient |-> get_text_rel(t, ctx, XP_Coefficient),
     PersonReplaced |-> get_text_rel(t, ctx, XP_PersonReplaced)]

(* -------------- serialisation -------------- *)
\* position of element n in document order
Index(s, n) == CHOOSE i \in 1..Len(s) : s[i] = n

Pos(t, n) == The({Index(ord, n) : ord \in {DocOrder(t)}})

\* tostring: the attached elements in document order; the bytes render an
\* element without text and one with empty text alike
tostring(t) ==
    The({ [i \in 1..Len(ord) |->
             [tag |-> t[ord[i]].tag,
              text |-> IF t[ord[i]].text = None THEN <<>> ELSE t[ord[i]].text,
              parent |-> IF t[ord[i]].parent = 0 THEN 0 ELSE Index(ord, t[ord[i]].parent)]]
          : ord \in {DocOrder(t)} })

\* parse_xml: an element whose content is empty has text None
parse_xml(xml_bytes) ==
    [i \in 1..Len(xml_bytes) |->
        [xml_bytes[i] EXCEPT !.text = IF @ = <<>> THEN None ELSE @]]

(* -------------- Public APIs -------------- *)
\* the body of the loop of process_all for one context; yields
\* [tree, summary, key, cmd_row, normalized, mapped]
process_context(t, ctx, records, config) ==
    LET rules == dict_get(config, "rules", EmptyDict)
    IN  The({ The({
          LET found == key # <<>> /\ key \in DOMAIN records
              cmd_row == IF found THEN records[key] ELSE None
              \* "if cmd_row:" and bool(cmd_row): None and the empty dict are falsy
              truthy == found /\ DOMAIN records[key] # {}
          IN  The({ [tree |-> t2,
                     summary |-> [s |-> summarize_ctx(t2, ctx), matched |-> truthy],
                     key |-> key, cmd_row |-> cmd_row, normalized |-> t1,
                     mapped |-> truthy]
                    : t2 \in {IF truthy
                              THEN apply_command_mappings_ctx(t1, ctx, cmd_row, config).tree
                              ELSE t1} })
          : key \in {extract_order_id_ctx(t1, ctx)} })
          : t1 \in {IF dict_get(rules, "normalize_coefficient_from_level", TRUE)
                    THEN normalize_classification_ctx(
                             t, ctx,
                             dict_get(rules, "classification_regex", RegexDefault)).tree
                    ELSE t} })

\* f"{n:03d}"
DigitChar(d) == <<"0", "1", "2", "3", "4", "5", "6", "7", "8", "9">>[d + 1]

fmt03d(n) ==
    IF n < 1000
    THEN <<DigitChar(n \div 100), DigitChar((n \div 10) % 10), DigitChar(n % 10)>>
    ELSE <<DigitChar(n \div 1000)>>
         \o <<DigitChar((n \div 100) % 10), DigitChar((n \div 10) % 10), DigitChar(n % 10)>>

\* lines 250-254: detach every context but the i-th (0-based j, i) that has a parent
RECURSIVE remove_others(_, _, _, _)
remove_others(t, ctxs_copy, j, i) ==
    IF j >= Len(ctxs_copy) THEN t
    ELSE LET ctx_copy == ctxs_copy[j + 1]
             parent == t[ctx_copy].parent
         IN  IF j # i /\ parent # 0
             THEN The({remove_others(t2, ctxs_copy, j + 1, i) :
                         t2 \in {[t EXCEPT ![ctx_copy].parent = Detached]}})
             ELSE remove_others(t, ctxs_copy, j + 1, i)

\* one iteration of the loop of split_fixed_by_contract (i is 0-based);
\* yields [raised, item]
split_one(t, i) ==
    The({ The({ The({ The({
      IF kept = <<>>
      THEN [raised |-> TRUE, item |-> <<>>]
      ELSE The({ [raised |-> FALSE,
                  item |-> << IF oid # <<>> THEN oid
                              ELSE <<"N", "O", "O", "R", "D", "E", "R", "_">>
                                   \o fmt03d(i + 1),
                              IF aid # <<>> THEN aid
                              ELSE <<"N", "O", "A", "S", "S", "I", "G", "N", "_">>
                                   \o fmt03d(i + 1),
                              tostring(pruned) >>]
                 : oid \in {extract_order_id_ctx(pruned, kept[1])},
                   aid \in {extract_assignment_id_ctx(pruned, kept[1])} })
      : kept \in {find_contract_contexts(pruned)} })
      : pruned \in {remove_others(tree_copy, ctxs_copy, 0, i)} })
      : ctxs_copy \in {find_contract_contexts(tree_copy)} })
      : tree_copy \in {parse_xml(tostring(t))} })

(* -------------- documents, configurations and order records -------------- *)
H(l) == <<"{", HR_NS, "}", l>>
El(l, p) == [tag |-> H(l), text |-> None, parent |-> p]
Tx(l, s, p) == [tag |-> H(l), text |-> s, parent |-> p]

K1 == <<"K", "1">>
K2 == <<"K", "2">>
A1 == <<"A", "1">>
A2 == <<"A", "2">>

\* a contract element holding only its marker; occupies ids base+1 .. base+6
Bare(base, parent, name, order, assign) ==
    << El(name, parent),
       El("ReferenceInformation", base + 1),
       El("OrderId", base + 2),
       Tx("IdValue", order, base + 3),
       El("AssignmentId", base + 2),
       Tx("IdValue", assign, base + 5) >>

\* a contract with a position level and a work site; ids base+1 .. base+10
Contract(base, parent, name, order, assign, level, site) ==
    Bare(base, parent, name, order, assign) \o
    << El("PositionCharacteristics", base + 1),
       Tx("PositionLevel", level, base + 7),
       El("WorkSite", base + 1),
       Tx("SiteId", site, base + 9) >>

\* two sibling contracts of identical tag structure
DocSiblings ==
    <<El("Envelope", 0)>>
    \o Contract(1, 1, "Assignment", K1, A1, <<"B", "7">>, <<"1", "-", "O">>)
    \o Contract(11, 1, "Assignment", K2, A2, <<"B", "7">>, <<"S">>)

\* a padded order id, a level off the default pattern; a second contract with
\* a blank order id and nothing but its marker
DocBlank ==
    <<El("Envelope", 0)>>
    \o Contract(1, 1, "Assignment", <<" ", "K", "1", " ">>, A1, <<"Z", "9">>, <<" ", "7", "-", "X">>)
    \o Bare(11, 1, "Assignment", None, A2)

\* a contract nested inside another contract
DocNested ==
    <<El("Envelope", 0)>>
    \o Contract(1, 1, "Assignment", K1, A1, <<"C", "1", "2">>, <<"S">>)
    \o Bare(11, 2, "StaffingOrder", K2, A2)

\* the root element is itself a contract; a nested contract precedes the
\* root's own marker
DocRoot ==
    <<El("Assignment", 0)>>
    \o Bare(1, 1, "StaffingOrder", K2, A2)
    \o << El("ReferenceInformation", 1),
          El("OrderId", 8),
          Tx("IdValue", K1, 9),
          El("AssignmentId", 8),
          Tx("IdValue", A1, 11),
          El("WorkSite", 1),
          Tx("SiteId", <<"1", "-", "O">>, 13) >>

\* two markers under one parent
DocShared ==
    <<El("Envelope", 0)>>
    \o Bare(1, 1, "Assignment", K1, A1)
    \o << El("ReferenceInformation", 2),
          El("OrderId", 8),
          Tx("IdValue", K2, 9),
          El("AssignmentId", 8),
          Tx("IdValue", A2, 11) >>

\* no marker: the reference information has no assignment id
DocNone ==
    << El("Envelope", 0),
       El("Assignment", 1),
       El("ReferenceInformation", 2),
       El("OrderId", 3),
       Tx("IdValue", K1, 4),
       El("PositionCharacteristics", 2),
       Tx("PositionLevel", <<"B", "7">>, 6) >>

Docs == {DocSiblings, DocBlank, DocNested, DocRoot, DocShared, DocNone}

P_Classification == XP_Coefficient
P_Statut == <<"hr:", "PositionCharacteristics", "/", "hr:", "PositionStatus", "/", "hr:", "Code">>
P_Personne == <<".">> \o XP_PersonReplaced
P_Metier == <<" ", ".", "/", "/", "hr:", "PositionCharacteristics", "/", "hr:", "PositionTitle", " ">>
P_Site == <<"/", "/", "hr:", "WorkSite", "/", "hr:", "SiteId">>

FullMappings ==
    [classification_interimaire |-> P_Classification, statut |-> P_Statut,
     personne_absente |-> P_Personne, code_metier |-> P_Metier, code_site |-> P_Site]

StatutMap == (<<"a">> :> <<"A">>) @@ (<<"z">> :> <<>>)

Cfgs ==
    { [rules |-> [classification_regex |-> RegexDefault],
       mappings |-> FullMappings, statut_map |-> StatutMap,
       site_idvalue |-> [rebuild |-> FALSE, siret_prefix |-> <<"9">>]],
      [rules |-> [normalize_coefficient_from_level |-> TRUE,
                  classification_regex |-> RegexAny],
       mappings |-> FullMappings, statut_map |-> StatutMap,
       site_idvalue |-> [rebuild |-> TRUE, siret_prefix |-> <<"9">>]],
      [mappings |-> FullMappings,
       site_idvalue |-> [rebuild |-> TRUE, siret_prefix |-> <<>>]],
      [rules |-> [normalize_coefficient_from_level |-> FALSE],
       mappings |-> [code_site |-> <<"hr:", "SiteId">>, personne_absente |-> P_Personne],
       statut_map |-> StatutMap],
      [rules |-> [classification_regex |-> RegexAny], statut_map |-> StatutMap] }

F_class == "classification_interimaire"
F_statut == "statut"
F_pers == "personne_absente"
F_metier == "code_metier"
F_site == "code_site"
Fields == <<F_class, F_statut, F_pers, F_metier, F_site>>

CmdFull ==
    (F_class :> <<"C", "3">>) @@ (F_statut :> <<"a">>) @@ (F_pers :> <<"P">>)
    @@ (F_metier :> <<" ", "M">>) @@ (F_site :> <<"N">>)
CmdSitePadded == (F_site :> <<" ", "N", " ">>) @@ (F_statut :> <<"x">>)
CmdSiteHyphen == (F_site :> <<"A", "-", "B">>) @@ (F_statut :> <<"z">>)
CmdBlank ==
    (F_class :> <<>>) @@ (F_statut :> <<" ">>) @@ (F_pers :> <<" ", " ">>)
    @@ (F_metier :> <<"\t">>) @@ (F_site :> <<>>)
CmdPartial == (F_pers :> <<"P">>) @@ (F_metier :> <<" ">>) @@ (F_site :> <<"N">>)

Cmds == {CmdFull, CmdSitePadded, CmdSiteHyphen, CmdBlank, CmdPartial, EmptyDict}

\* the order records the collaborator may hand over; keys are trimmed and
\* non-empty, a record may be empty
RecordSets ==
    { EmptyDict,
      (K1 :> CmdFull) @@ (K2 :> CmdSiteHyphen),
      (K1 :> EmptyDict) @@ (K2 :> CmdPartial),
      (K2 :> CmdSitePadded) @@ (<<"K", "9">> :> CmdFull) }

(* -------------- state -------------- *)
VARIABLES
    tree,         \* the parsed document, mutated in place
    cfg,          \* the mapping configuration
    cmd,          \* the order record the engine calls are made with
    cmd_records,  \* order id -> order record
    pc,           \* where the run stands
    contexts,     \* the discovered contract contexts
    idx,          \* 0-based index of the next context of the running loop
    summaries,    \* process_all's summaries
    fixed_xml,    \* process_all's serialised result
    parts,        \* split_fixed_by_contract's results
    target,       \* the context and path the resolver calls are made with
    log           \* the calls made so far, with the tree before and after

vars ==
    <<tree, cfg, cmd, cmd_records, pc, contexts, idx, summaries, fixed_xml, parts, target, log>>

NoTarget == [ctx |-> 0, path |-> <<>>]

Range(s) == {s[i] : i \in 1..Len(s)}

(* -------------- the run of app.py: process_all, then the split -------------- *)
Init ==
    /\ tree \in Docs
    /\ cfg \in Cfgs
    /\ cmd = EmptyDict
    /\ cmd_records \in RecordSets
    /\ pc = "start"
    /\ contexts = <<>>
    /\ idx = 0
    /\ summaries = <<>>
    /\ fixed_xml = <<>>
    /\ parts = <<>>
    /\ target = NoTarget
    /\ log = <<>>

\* process_all, lines 211-216
Discover ==
    /\ pc = "start"
    /\ contexts' = find_contract_contexts(tree)
    /\ idx' = 0
    /\ pc' = "loop"
    /\ log' = Append(log, [op |-> "discover", before |-> tree])
    /\ UNCHANGED <<tree, cfg, cmd, cmd_records, summaries, fixed_xml, parts, target>>

\* process_all, lines 217-228: one iteration
ProcessContext ==
    /\ pc = "loop"
    /\ idx < Len(contexts)
    /\ \E r \in {process_context(tree, contexts[idx + 1], cmd_records, cfg)} :
           /\ tree' = r.tree
           /\ summaries' = Append(summaries, r.summary)
           /\ log' = Append(log, [op |-> "process", ctx |-> contexts[idx + 1],
                                  before |-> tree, normalized |-> r.normalized,
                                  after |-> r.tree, key |-> r.key, mapped |-> r.mapped])
    /\ idx' = idx + 1
    /\ UNCHANGED <<cfg, cmd, cmd_records, pc, contexts, fixed_xml, parts, target>>

\* process_all, lines 230-232
Serialize ==
    /\ pc = "loop"
    /\ idx = Len(contexts)
    /\ fixed_xml' = tostring(tree)
    /\ pc' = "fixed"
    /\ UNCHANGED <<tree, cfg, cmd, cmd_records, contexts, idx, summaries, parts, target, log>>

\* split_fixed_by_contract, lines 241-243
SplitBegin ==
    /\ pc = "fixed"
    /\ \E t \in {parse_xml(fixed_xml)} :
           /\ tree' = t
           /\ contexts' = find_contract_contexts(t)
    /\ idx' = 0
    /\ parts' = <<>>
    /\ pc' = "split"
    /\ UNCHANGED <<cfg, cmd, cmd_records, summaries, fixed_xml, target, log>>

\* split_fixed_by_contract, lines 244-259: one iteration; an IndexError at
\* line 256 ends the call
SplitContract ==
    /\ pc = "split"
    /\ idx < Len(contexts)
    /\ \E r \in {split_one(tree, idx)} :
           IF r.raised
           THEN /\ pc' = "raised"
                /\ UNCHANGED <<parts, idx>>
           ELSE /\ parts' = Append(parts, r.item)
                /\ idx' = idx + 1
                /\ pc' = pc
    /\ UNCHANGED <<tree, cfg, cmd, cmd_records, contexts, summaries, fixed_xml, target, log>>

\* split_fixed_by_contract, line 260
SplitReturn ==
    /\ pc = "split"
    /\ idx = Len(contexts)
    /\ pc' = "done"
    /\ UNCHANGED <<tree, cfg, cmd, cmd_records, contexts, idx, summaries, fixed_xml, parts, target, log>>

Next ==
    \/ Discover
    \/ ProcessContext
    \/ Serialize
    \/ SplitBegin
    \/ SplitContract
    \/ SplitReturn

Spec == Init /\ [][Next]_vars

(* -------------- the engine called on its own -------------- *)
InitEngine ==
    /\ tree \in Docs
    /\ cfg \in Cfgs
    /\ cmd \in Cmds
    /\ cmd_records = EmptyDict
    /\ pc = "engine"
    /\ contexts = find_contract_contexts(tree)
    /\ idx = 0
    /\ summaries = <<>>
    /\ fixed_xml = <<>>
    /\ parts = <<>>
    /\ target = NoTarget
    /\ log = <<>>

ClassRegex == dict_get(dict_get(cfg, "rules", EmptyDict), "classification_regex", RegexDefault)

CallNormalize ==
    /\ pc = "engine"
    /\ Len(log) < MaxCalls
    /\ \E ctx \in Range(contexts) :
          \E r \in {normalize_classification_ctx(tree, ctx, ClassRegex)} :
              /\ tree' = r.tree
              /\ log' = Append(log, [op |-> "normalize", ctx |-> ctx, before |-> tree,
                                     after |-> r.tree, changed |-> r.changed,
                                     value |-> r.value])
    /\ UNCHANGED <<cfg, cmd, cmd_records, pc, contexts, idx, summaries, fixed_xml, parts, target>>

CallApply ==
    /\ pc = "engine"
    /\ Len(log) < MaxCalls
    /\ \E ctx \in Range(contexts) :
          \E steps \in {apply_command_mappings_steps(tree, ctx, cmd, cfg)} :
          \E r \in {apply_command_mappings_ctx(tree, ctx, cmd, cfg)} :
              /\ tree' = r.tree
              /\ log' = Append(log, [op |-> "apply", ctx |-> ctx, before |-> tree,
                                     after |-> r.tree, applied |-> r.applied,
                                     steps |-> steps])
    /\ UNCHANGED <<cfg, cmd, cmd_records, pc, contexts, idx, summaries, fixed_xml, parts, target>>

NextEngine ==
    \/ CallNormalize
    \/ CallApply

SpecEngine == InitEngine /\ [][NextEngine]_vars

(* -------------- the resolver called on its own -------------- *)
\* paths whose chain exists in full, in part, or not at all under a contract
ResolverPaths ==
    { P_Site, P_Statut, P_Metier, XP_RecourseType,
      <<"hr:", "WorkSite", "/", "hr:", "IdValue">>,
      <<"hr:", "IdValue">> }

Values == { <<"V">>, <<" ", "V", "-", "W", " ">>, <<>> }

InitResolver ==
    /\ tree \in Docs
    /\ cfg = EmptyDict
    /\ cmd = EmptyDict
    /\ cmd_records = EmptyDict
    /\ pc = "resolver"
    /\ contexts = find_contract_contexts(tree)
    /\ idx = 0
    /\ summaries = <<>>
    /\ fixed_xml = <<>>
    /\ parts = <<>>
    /\ target \in [ctx : Range(find_contract_contexts(tree)), path : ResolverPaths]
    /\ log = <<>>

CallEnsure ==
    /\ pc = "resolver"
    /\ Len(log) < MaxCalls
    /\ \E r \in {ensure_node_rel(tree, target.ctx, target.path)} :
          /\ tree' = r.tree
          /\ log' = Append(log, [op |-> "ensure", ctx |-> target.ctx, path |-> target.path,
                                 before |-> tree, after |-> r.tree, node |-> r.node])
    /\ UNCHANGED <<cfg, cmd, cmd_records, pc, contexts, idx, summaries, fixed_xml, parts, target>>

CallSetText ==
    /\ pc = "resolver"
    /\ Len(log) < MaxCalls
    /\ \E value \in Values :
       \E t2 \in {set_text_rel(tree, target.ctx, target.path, value)} :
          /\ tree' = t2
          /\ log' = Append(log, [op |-> "set_text", ctx |-> target.ctx, path |-> target.path,
                                 value |-> value, before |-> tree, after |-> t2])
    /\ UNCHANGED <<cfg, cmd, cmd_records, pc, contexts, idx, summaries, fixed_xml, parts, target>>

NextResolver ==
    \/ CallEnsure
    \/ CallSetText

SpecResolver == InitResolver /\ [][NextResolver]_vars

(* ======================= the claims ======================= *)
Last == log[Len(log)]

Subtree(t, n) == DescOrSelf(t, {n})

\* a and b have identical tag structure
RECURSIVE SameShape(_, _, _)
SameShape(t, a, b) ==
    /\ t[a].tag = t[b].tag
    /\ Len(Kids(t, a)) = Len(Kids(t, b))
    /\ \A k \in 1..Len(Kids(t, a)) : SameShape(t, Kids(t, a)[k], Kids(t, b)[k])

\* the order id of context c, read off the tree: the trimmed text of the
\* first IdValue of an OrderId of a ReferenceInformation below c
OrderIdOf(t, c) ==
    LET vs == {v \in Subtree(t, c) \ {c} :
                  /\ t[v].tag = H("IdValue")
                  /\ t[v].parent # c
                  /\ t[t[v].parent].tag = H("OrderId")
                  /\ t[t[v].parent].parent # c
                  /\ t[t[t[v].parent].parent].tag = H("ReferenceInformation")}
        first == CHOOSE v \in vs : \A w \in vs : Pos(t, v) <= Pos(t, w)
    IN  IF vs = {} \/ t[first].text = None THEN <<>> ELSE strip(t[first].text)

\* the contexts other than the one the last call was made on that share its
\* tag structure and carry another order id
Twins ==
    {b \in Range(find_contract_contexts(Last.before)) :
        /\ b # Last.ctx
        /\ SameShape(Last.before, Last.ctx, b)
        /\ OrderIdOf(Last.before, Last.ctx) # OrderIdOf(Last.before, b)}

\* C1 (isolation): a call of normalize_classification_ctx or
\* apply_command_mappings_ctx on context A leaves the subtree of every other
\* context B of identical tag structure and distinct order id as it was: the
\* same elements, tags, texts and parents, and no element added below B.
C1_Isolation ==
    (log # <<>> /\ Last.op \in {"normalize", "apply"}) =>
        \A b \in Twins :
            /\ Subtree(Last.after, b) = Subtree(Last.before, b)
            /\ \A n \in Subtree(Last.before, b) : Last.after[n] = Last.before[n]

\* a call on A that created nodes and rewrote the site code, with a twin B
C1_Witness ==
    /\ log # <<>>
    /\ Last.op = "apply"
    /\ Twins # {}
    /\ Len(Last.after) > Len(Last.before)
    /\ F_site \in DOMAIN Last.applied

Mappings == dict_get(cfg, "mappings", EmptyDict)

\* the claim's three reasons for skipping field f
Skipped(f) ==
    \/ f \notin DOMAIN cmd
    \/ f \notin DOMAIN Mappings
    \/ strip(cmd[f]) = <<>>

\* C5 (mapping skip rule): a field that is absent from the order record or
\* from cfg.mappings, or whose value is empty after trimming, leaves the tree
\* and the applied mapping as its block found them, and is not in the result.
C5_SkipRule ==
    (log # <<>> /\ Last.op = "apply") =>
        \A k \in 1..5 :
            Skipped(Fields[k]) =>
                /\ Last.steps[k + 1] = Last.steps[k]
                /\ Fields[k] \notin DOMAIN Last.applied

\* a whitespace-only mapped field is skipped in a call that writes others
C5_Witness ==
    /\ log # <<>>
    /\ Last.op = "apply"
    /\ \E f \in DOMAIN cmd \cap DOMAIN Mappings : cmd[f] # <<>> /\ strip(cmd[f]) = <<>>
    /\ Last.after # Last.before

SiteFires ==
    /\ F_site \in DOMAIN cmd
    /\ F_site \in DOMAIN Mappings
    /\ strip(cmd[F_site]) # <<>>

BeforeFirstHyphen(s) == SubSeq(s, 1, Min({i \in 1..Len(s) : s[i] = "-"}) - 1)

SiteCfg == dict_get(cfg, "site_idvalue", EmptyDict)

\* the value the claim says code_site writes, given the value read at the
\* mapped path when the code_site block starts
ExpectedSite(existing) ==
    LET v == strip(cmd[F_site])
    IN  IF dict_get(SiteCfg, "rebuild", FALSE) /\ dict_get(SiteCfg, "siret_prefix", <<>>) # <<>>
        THEN SiteCfg.siret_prefix \o <<"-">> \o v
        ELSE IF "-" \in Range(existing)
        THEN BeforeFirstHyphen(existing) \o <<"-">> \o v
        ELSE v

\* C6 (site-code logic): when code_site fires with trimmed value v, the text
\* at the mapped path afterwards is "<siret_prefix>-v" under rebuild with a
\* non-empty prefix, else "<existing up to its first hyphen>-v" when the
\* existing value has a hyphen, else v.
C6_SiteCode ==
    (log # <<>> /\ Last.op = "apply" /\ SiteFires) =>
        LET pre  == Last.steps[5].tree
            post == Last.steps[6].tree
        IN  post[find_one_rel(post, Last.ctx, Mappings[F_site])].text
                = ExpectedSite(get_text_rel(pre, Last.ctx, Mappings[F_site]))

\* the prefix of an existing hyphenated value is kept
C6_Witness ==
    /\ log # <<>>
    /\ Last.op = "apply"
    /\ SiteFires
    /\ ~dict_get(SiteCfg, "rebuild", FALSE)
    /\ "-" \in Range(get_text_rel(Last.steps[5].tree, Last.ctx, Mappings[F_site]))
    /\ Last.after # Last.before

\* the path a key of the applied mapping was written at
PathOf(f) == IF f = "recourse_type" THEN XP_RecourseType ELSE Mappings[f]

\* the fields whose block wrote: present in record and mappings, with a
\* non-empty value (for statut, after translation)
Fired(f) ==
    /\ ~Skipped(f)
    /\ f = F_statut =>
         dict_get(dict_get(cfg, "statut_map", EmptyDict), strip(cmd[f]), strip(cmd[f])) # <<>>

\* C8 (applied-fields result): the returned mapping has an entry for exactly
\* the fields written, and each entry equals the value stored at the field's
\* mapped path after the call.
C8_AppliedFields ==
    (log # <<>> /\ Last.op = "apply") =>
        /\ DOMAIN Last.applied =
              {f \in Range(Fields) : Fired(f)}
              \cup (IF Fired(F_pers) THEN {"recourse_type"} ELSE {})
        /\ \A f \in DOMAIN Last.applied :
              Last.applied[f] = get_text_rel(Last.after, Last.ctx, PathOf(f))

\* two calls in a row on the same context
Repeated(op) ==
    /\ Len(log) >= 2
    /\ Last.op = op
    /\ log[Len(log) - 1].op = op
    /\ log[Len(log) - 1].ctx = Last.ctx

\* C10 (mapping idempotence): a second apply_command_mappings_ctx with the
\* same record and configuration on the same context leaves the tree as the
\* first left it.
C10_ApplyIdempotent == Repeated("apply") => Last.after = Last.before

\* C7 (normalization idempotence): a second run on the same context leaves
\* the tree and the returned coefficient as the first run left them; on an
\* already-fixed contract (coefficient non-empty) it reports no change, and a
\* change is reported again only while the coefficient is still empty.
C7_NormalizeIdempotent ==
    Repeated("normalize") =>
        /\ Last.after = Last.before
        /\ Last.value = log[Len(log) - 1].value
        /\ Last.value # <<>> => Last.changed = FALSE
        /\ Last.changed => Last.value = <<>>

\* the first run derived the coefficient, the second found it in place
C7_Witness ==
    /\ Repeated("normalize")
    /\ log[Len(log) - 1].changed
    /\ Last.value # <<>>
    /\ ~Last.changed

\* the chain of names of a path
ChainOf(path) ==
    SelectSeq(split(SelectSeq(path, LAMBDA a : a \notin {" ", "."}), <<"/">>),
              LAMBDA p : p # <<>>)

\* the first match under ctx of the first k names of the chain; 0 when none
PrefixMatch(t, ctx, chain, k) ==
    LET found == xpath(t, ctx, <<".", "/", "/">> \o join(SubSeq(chain, 1, k), <<"/">>))
    IN  IF found = <<>> THEN 0 ELSE found[1]

\* the length of the longest prefix of the chain that resolves under ctx
LongestPrefix(t, ctx, chain) ==
    Max({0} \cup {k \in 1..Len(chain) : PrefixMatch(t, ctx, chain, k) # 0})

ClarkTag(name) == IF name[1] = "hr:" THEN <<"{", HR_NS, "}">> \o Tail(name) ELSE name

\* C9 (node creation): ensure_node_rel returns the existing terminal node and
\* creates nothing when the chain resolves; otherwise it creates exactly the
\* names beyond the longest resolving prefix, the first as last child of that
\* prefix's first match (of the context when there is none), each next one as
\* last child of the one before, and returns the first match of the full
\* path; a text read after set_text_rel returns the written value trimmed.
C9_NodeCreation ==
    /\ (log # <<>> /\ Last.op = "ensure") =>
          LET chain == ChainOf(Last.path)
              n == Len(chain)
              L == LongestPrefix(Last.before, Last.ctx, chain)
              old == Len(Last.before)
          IN  IF L = n
              THEN /\ Last.after = Last.before
                   /\ Last.node = PrefixMatch(Last.before, Last.ctx, chain, n)
              ELSE /\ Len(Last.after) = old + (n - L)
                   /\ SubSeq(Last.after, 1, old) = Last.before
                   /\ \A k \in 1..(n - L) :
                         /\ Last.after[old + k].tag = ClarkTag(chain[L + k])
                         /\ Last.after[old + k].text = None
                         /\ Last.after[old + k].parent =
                               IF k > 1 THEN old + k - 1
                               ELSE IF L = 0 THEN Last.ctx
                               ELSE PrefixMatch(Last.before, Last.ctx, chain, L)
                         /\ LET ks == Kids(Last.after, Last.after[old + k].parent)
                            IN  ks[Len(ks)] = old + k
                   /\ Last.node = old + (n - L)
                   /\ Last.node = find_one_rel(Last.after, Last.ctx, Last.path)
    /\ (log # <<>> /\ Last.op = "set_text") =>
          get_text_rel(Last.after, Last.ctx, Last.path) = strip(Last.value)

\* part of the chain existed and two elements were created below it
C9_Witness ==
    /\ log # <<>>
    /\ Last.op = "ensure"
    /\ LongestPrefix(Last.before, Last.ctx, ChainOf(Last.path)) = 1
    /\ Len(Last.after) = Len(Last.before) + 2

IsMarker(t, n) ==
    /\ t[n].tag = H("ReferenceInformation")
    /\ \E o, v \in 1..Len(t) :
          /\ t[o].parent = n /\ t[o].tag = H("OrderId")
          /\ t[v].parent = o /\ t[v].tag = H("IdValue")
    /\ \E a, v \in 1..Len(t) :
          /\ t[a].parent = n /\ t[a].tag = H("AssignmentId")
          /\ t[v].parent = a /\ t[v].tag = H("IdValue")

MarkersOf(t) == {n \in Range(DocOrder(t)) : IsMarker(t, n)}

\* the document find_contract_contexts last ran on
Discovered == IF pc = "loop" THEN log[1].before ELSE tree

\* C3 as stated (discovery): N well-formed markers give exactly N contexts.
C3_Original ==
    pc \in {"loop", "split"} => Len(contexts) = Cardinality(MarkersOf(Discovered))

\* C3 as amended: the contexts are exactly the distinct parent elements of
\* the markers, each once, in document order; there are N of them when the N
\* markers have N distinct parents, and none when there is no marker.
C3_Discovery ==
    pc \in {"loop", "split"} =>
        LET t == Discovered
            ms == MarkersOf(t)
            ps == {t[m].parent : m \in ms} \ {0}
        IN  /\ Range(contexts) = ps
            /\ Len(contexts) = Cardinality(ps)
            /\ \A i, j \in 1..Len(contexts) : i < j => Pos(t, contexts[i]) < Pos(t, contexts[j])
            /\ Cardinality(ps) = Cardinality(ms) => Len(contexts) = Cardinality(ms)
            /\ ms = {} => contexts = <<>>

\* two markers with two parents, one of which lies inside the other
C3_Witness ==
    /\ pc = "loop"
    /\ Len(contexts) = 2
    /\ Cardinality(MarkersOf(Discovered)) = 2
    /\ contexts[1] \in AncOrSelf(Discovered, contexts[2])

\* C4 (matched flag): one summary per context, and for each context the
\* flag is true, and the mapping engine applied, exactly when cmd_records has
\* a record under the context's order id; an unmatched context keeps its
\* fields.
C4_MatchedFlag ==
    pc = "fixed" =>
        /\ Len(summaries) = Len(contexts)
        /\ \A k \in 1..Len(contexts) :
              LET e == log[k + 1]
                  has == e.key \in DOMAIN cmd_records
              IN  /\ e.ctx = contexts[k]
                  /\ summaries[k].matched = has
                  /\ e.mapped = has
                  /\ ~has => e.after = e.normalized

Placeholder(word, k) == word \o <<"0", "0", DigitChar(k)>>

\* C2 (split round-trip): the split of a document with N contexts does not
\* raise and returns N results; each result parses to a document with one
\* context; the k-th pair of identifiers is that of the k-th context, a blank
\* one replaced by NOORDER_00k / NOASSIGN_00k.
C2_SplitRoundTrip ==
    /\ pc # "raised"
    /\ pc = "done" =>
          /\ Len(parts) = Len(contexts)
          /\ \A k \in 1..Len(parts) :
                LET oid == extract_order_id_ctx(tree, contexts[k])
                    aid == extract_assignment_id_ctx(tree, contexts[k])
                IN  /\ Len(find_contract_contexts(parse_xml(parts[k][3]))) = 1
                    /\ parts[k][1] = IF oid # <<>> THEN oid
                                     ELSE Placeholder(<<"N", "O", "O", "R", "D", "E", "R", "_">>, k)
                    /\ parts[k][2] = IF aid # <<>> THEN aid
                                     ELSE Placeholder(<<"N", "O", "A", "S", "S", "I", "G", "N", "_">>, k)

====
